---- MODULE Spec2Model ----
(***************************************************************************)
(* Model of streamlit_app.py, the medication order calculator: the product *)
(* key builder (preprocess_product), the order quantity calculator         *)
(* (calculate_quantity_to_order) and the reconciliation pipeline of main() *)
(* (rename, outer join, two left joins, combine_first, drop, required      *)
(* column check, per-row calculation).                                     *)
(*                                                                         *)
(* Cells of a table are records [k, s, n, d]:                              *)
(*   k = "str"   a Python str, text in s                                   *)
(*   k = "int"   an integer n (d = 1), as read from an all-integer column  *)
(*   k = "float" the number n/d in lowest terms (d >= 1)                   *)
(*   k = "nan"   the null of pandas (NaN / None)                           *)
(* Floats are modelled as exact rationals.                                 *)
(***************************************************************************)
EXTENDS Integers, Sequences, FiniteSets, TLC

VARIABLES
    pc,                 \* position in the run
    meds_on_hand,       \* table: [cols, rows]
    products_on_hand,   \* table
    dispensed_2_months, \* table
    dispensed_6_months, \* table
    combined_data,      \* table: the reconciled table
    target_months,      \* slider value
    st_out,             \* what the run showed the user: [error, unmatched, raised]
    row,                \* argument row of the function applied (function specs)
    columns,            \* role mapping argument of preprocess_product
    result              \* value returned by the function applied

vars == <<pc, meds_on_hand, products_on_hand, dispensed_2_months,
          dispensed_6_months, combined_data, target_months, st_out,
          row, columns, result>>

----------------------------------------------------------------------------
(* Cells *)

Str(s) == [k |-> "str", s |-> s, n |-> 0, d |-> 1]

Int_(n) == [k |-> "int", s |-> "", n |-> n, d |-> 1]

RECURSIVE Gcd(_, _)
Gcd(a, b) == IF b = 0 THEN a ELSE Gcd(b, a % b)

Abs(n) == IF n < 0 THEN -n ELSE n

\* the float n/d, d > 0, in lowest terms
Float(n, d) ==
    LET g == Gcd(Abs(n), d)
    IN  [k |-> "float", s |-> "", n |-> n \div g, d |-> d \div g]

NaN == [k |-> "nan", s |-> "", n |-> 0, d |-> 1]

\* raised exception, propagated as a value
Raise(e) == [k |-> "raise", s |-> e, n |-> 0, d |-> 1]

IsNum(c) == c.k \in {"int", "float"}

\* pd.notnull
notnull(c) == c.k # "nan"

\* Python's numeric comparisons and arithmetic; every comparison with NaN is False
Gt(a, b) == IsNum(a) /\ IsNum(b) /\ a.n * b.d > b.n * a.d

NumEq(a, b) == IsNum(a) /\ IsNum(b) /\ a.n * b.d = b.n * a.d

\* a / b (true division, b nonzero): float, NaN when an operand is NaN
TrueDiv(a, b) ==
    IF ~IsNum(a) \/ ~IsNum(b) THEN NaN
    ELSE IF b.n > 0 THEN Float(a.n * b.d, a.d * b.n)
    ELSE Float(-(a.n * b.d), a.d * (-b.n))

\* a - b: int for two ints, float otherwise, NaN when an operand is NaN
Sub(a, b) ==
    IF ~IsNum(a) \/ ~IsNum(b) THEN NaN
    ELSE IF a.k = "int" /\ b.k = "int" THEN Int_(a.n - b.n)
    ELSE Float(a.n * b.d - b.n * a.d, a.d * b.d)

\* max that keeps the last argument unless the first is greater
PyMaxKeepLast(a, b) == IF Gt(a, b) THEN a ELSE b

\* builtin max(a, b): keeps a unless b > a
PyMax(a, b) == IF Gt(b, a) THEN b ELSE a

----------------------------------------------------------------------------
(* Strings *)

Digits == "0123456789"

CharAt(s, i) == SubSeq(s, i, i)

IsSpace(c) == c \in {" ", "\t", "\n"}

LowerMap ==
    [A |-> "a", B |-> "b", C |-> "c", D |-> "d", E |-> "e", F |-> "f", G |-> "g",
     H |-> "h", I |-> "i", J |-> "j", K |-> "k", L |-> "l", M |-> "m", N |-> "n",
     O |-> "o", P |-> "p", Q |-> "q", R |-> "r", S |-> "s", T |-> "t", U |-> "u",
     V |-> "v", W |-> "w", X |-> "x", Y |-> "y", Z |-> "z"]

LowerChar(c) == IF c \in DOMAIN LowerMap THEN LowerMap[c] ELSE c

\* str.lower
RECURSIVE lower(_)
lower(s) ==
    IF Len(s) = 0 THEN ""
    ELSE LowerChar(CharAt(s, 1)) \o lower(SubSeq(s, 2, Len(s)))

RECURSIVE lstrip(_)
lstrip(s) ==
    IF Len(s) > 0 /\ IsSpace(CharAt(s, 1)) THEN lstrip(SubSeq(s, 2, Len(s)))
    ELSE s

RECURSIVE rstrip(_)
rstrip(s) ==
    IF Len(s) > 0 /\ IsSpace(CharAt(s, Len(s))) THEN rstrip(SubSeq(s, 1, Len(s) - 1))
    ELSE s

\* str.strip
strip(s) == rstrip(lstrip(s))

\* str.startswith
startswith(s, p) == Len(s) >= Len(p) /\ SubSeq(s, 1, Len(p)) = p

\* decimal text of a natural number
RECURSIVE NatStr(_)
NatStr(n) ==
    IF n < 10 THEN CharAt(Digits, n + 1)
    ELSE NatStr(n \div 10) \o CharAt(Digits, (n % 10) + 1)

\* str(x) and the f-string rendering of a cell
PyStr(c) ==
    CASE c.k = "str" -> c.s
      [] c.k = "nan" -> "nan"
      [] c.k = "int" -> IF c.n < 0 THEN "-" \o NatStr(-c.n) ELSE NatStr(c.n)
      [] c.k = "float" ->
            (IF c.n < 0 THEN "-" ELSE "") \o NatStr(Abs(c.n) \div c.d) \o "."
                \o NatStr(((Abs(c.n) * 10) \div c.d) % 10)

----------------------------------------------------------------------------
(* Product key builder *)

IGNORE_PREFIX == "1 x "

\* row.get(col, default)
Get(r, col, default) == IF col \in DOMAIN r THEN r[col] ELSE default

\* strips every leading occurrence of the prefix
StripAllPrefix(description, ignore_prefix) ==
    LET RECURSIVE F(_)
        F(s) == IF Len(ignore_prefix) > 0 /\ startswith(s, ignore_prefix)
                THEN F(SubSeq(s, Len(ignore_prefix) + 1, Len(s)))
                ELSE s
    IN  F(description)

\* lines 6-7 for a str description
StripPrefix(description, ignore_prefix) ==
    IF startswith(description, ignore_prefix)
    THEN SubSeq(description, Len(ignore_prefix) + 1, Len(description))
    ELSE description

preprocess_product(r, cols, ignore_prefix) ==
    LET description == Get(r, cols.description, Str(""))
    IN  IF notnull(description) /\ description.k # "str"
        THEN Raise("AttributeError")
        ELSE
          LET d == IF notnull(description)
                   THEN Str(StripPrefix(description.s, ignore_prefix))
                   ELSE description
          IN  Str(PyStr(Get(r, cols.name, Str(""))) \o " " \o PyStr(d) \o " "
                  \o PyStr(Get(r, cols.package_qty, Str(""))) \o " ("
                  \o lower(strip(PyStr(Get(r, cols.form, Str(""))))) \o ")")

MEDS_COLUMNS ==
    [name |-> "generic_name", description |-> "description",
     package_qty |-> "package_qty", form |-> "form"]

PRODUCTS_COLUMNS ==
    [name |-> "brand", description |-> "description",
     package_qty |-> "package_qty", form |-> "units"]

DISPENSED_COLUMNS ==
    [name |-> "generic", description |-> "qty_x_form",
     package_qty |-> "containers", form |-> "containers"]

----------------------------------------------------------------------------
(* Order quantity calculator *)

\* the calculation that never consults the override
calculate_OverrideIgnored(r, T) ==
    LET avg_dispensed == TrueDiv(r["total_units_past_6_months"],
                                 TrueDiv(Int_(6), Int_(T)))
        max_dispensed == PyMax(r["total_units_past_2_months"], avg_dispensed)
    IN  PyMax(Int_(0), Sub(max_dispensed, r["on_hand"]))

\* the calculation with a null on_hand counted as no stock
calculate_NullOnHandAsZero(r, T) ==
    LET avg_dispensed == TrueDiv(r["total_units_past_6_months"],
                                 TrueDiv(Int_(6), Int_(T)))
        max_dispensed == PyMax(r["total_units_past_2_months"], avg_dispensed)
        target_qty == IF notnull(r["target_qty_on_hand_override"])
                      THEN r["target_qty_on_hand_override"]
                      ELSE max_dispensed
        on_hand == IF notnull(r["on_hand"]) THEN r["on_hand"] ELSE Int_(0)
    IN  PyMax(Int_(0), Sub(target_qty, on_hand))

calculate_quantity_to_order(r, T) ==
    LET avg_dispensed == TrueDiv(r["total_units_past_6_months"],
                                 TrueDiv(Int_(6), Int_(T)))
        max_dispensed == PyMax(r["total_units_past_2_months"], avg_dispensed)
        target_qty == IF notnull(r["target_qty_on_hand_override"])
                      THEN r["target_qty_on_hand_override"]
                      ELSE max_dispensed
    IN  PyMax(Int_(0), Sub(target_qty, r["on_hand"]))

----------------------------------------------------------------------------
(* Tables: [cols |-> set of column names, rows |-> sequence of rows], a row *)
(* being a function from the column names to cells.                         *)

Range(f) == {f[x] : x \in DOMAIN f}

\* str.replace(old, new) for a one-character old
RECURSIVE replace(_, _, _)
replace(s, old, new) ==
    IF Len(s) = 0 THEN ""
    ELSE (IF CharAt(s, 1) = old THEN new ELSE CharAt(s, 1))
            \o replace(SubSeq(s, 2, Len(s)), old, new)

\* dtype inference of pandas: an integer column holding a null is a float column
ColumnDtype(rows, c) ==
    [i \in DOMAIN rows |->
        IF rows[i][c].k = "int" /\ \E j \in DOMAIN rows : rows[j][c].k = "nan"
        THEN Float(rows[i][c].n, 1)
        ELSE rows[i][c]]

Frame(cols, rows) ==
    [cols |-> cols,
     rows |-> [i \in DOMAIN rows |-> [c \in cols |-> ColumnDtype(rows, c)[i]]]]

\* df.rename(columns=h) for a renaming h that is a function on the headers
RenameAll(df, h) ==
    [cols |-> Range(h),
     rows |-> [i \in DOMAIN df.rows |->
                [c2 \in Range(h) |->
                    df.rows[i][CHOOSE c \in df.cols : h[c] = c2]]]]

\* line 17 for one header
StdHeader(c) == replace(lower(c), " ", "_")

\* line 17 for the headers cs, as a function on them
RECURSIVE StdHeaders(_)
StdHeaders(cs) ==
    IF cs = {} THEN <<>>
    ELSE LET c == CHOOSE x \in cs : TRUE
         IN  (c :> StdHeader(c)) @@ StdHeaders(cs \ {c})

standardize_columns(df) == RenameAll(df, StdHeaders(df.cols))

\* df.rename(columns={old: new}); a no-op when old is not a column
rename(df, old, new) ==
    RenameAll(df, [c \in df.cols |-> IF c = old THEN new ELSE c])

\* df[name] = values
SetColumn(df, name, values) ==
    [cols |-> df.cols \cup {name},
     rows |-> [i \in DOMAIN df.rows |->
                [c \in df.cols \cup {name} |->
                    IF c = name THEN values[i] ELSE df.rows[i][c]]]]

\* df.drop(columns=[name])
drop(df, name) ==
    [cols |-> df.cols \ {name},
     rows |-> [i \in DOMAIN df.rows |-> [c \in df.cols \ {name} |-> df.rows[i][c]]]]

\* df.apply(preprocess_product, axis=1, ...)
ProductColumn(df, cols) ==
    [i \in DOMAIN df.rows |-> preprocess_product(df.rows[i], cols, IGNORE_PREFIX)]

Column(df, c) == [i \in DOMAIN df.rows |-> df.rows[i][c]]

----------------------------------------------------------------------------
(* pd.merge(left, right, on='product', how=..., suffixes=...) *)

\* the characters of the model's strings in code point order
CodePoints == " ()-.0123456789ABCDEFGHIJKLMNOPQRSTUVWXYZ_abcdefghijklmnopqrstuvwxyz"

Ord(c) == CHOOSE i \in 1..Len(CodePoints) : CharAt(CodePoints, i) = c

\* a < b for two str
RECURSIVE StrLess(_, _)
StrLess(a, b) ==
    IF Len(b) = 0 THEN FALSE
    ELSE IF Len(a) = 0 THEN TRUE
    ELSE IF CharAt(a, 1) = CharAt(b, 1)
         THEN StrLess(SubSeq(a, 2, Len(a)), SubSeq(b, 2, Len(b)))
         ELSE Ord(CharAt(a, 1)) < Ord(CharAt(b, 1))

RECURSIVE SortKeys(_)
SortKeys(S) ==
    IF S = {} THEN <<>>
    ELSE LET m == CHOOSE x \in S : \A y \in S : ~StrLess(y, x)
         IN  <<m>> \o SortKeys(S \ {m})

RECURSIVE Flatten(_)
Flatten(ss) == IF Len(ss) = 0 THEN <<>> ELSE Head(ss) \o Flatten(Tail(ss))

KeyOf(r) == r["product"].s

Keys(df) == {KeyOf(df.rows[i]) : i \in DOMAIN df.rows}

\* df[cs]
Select(df, cs) ==
    [cols |-> cs, rows |-> [i \in DOMAIN df.rows |-> [c \in cs |-> df.rows[i][c]]]]

\* the positions of the rows of df with key k, ascending
IndexesOf(df, k) ==
    LET Test(i) == KeyOf(df.rows[i]) = k
    IN  SelectSeq([i \in 1..Len(df.rows) |-> i], Test)

\* the row pairs of a left join, 0 for no partner: left order is kept
LeftPairs(L, R) ==
    Flatten([i \in 1..Len(L.rows) |->
        LET rj == IndexesOf(R, KeyOf(L.rows[i]))
        IN  IF Len(rj) = 0 THEN << <<i, 0>> >>
            ELSE [b \in 1..Len(rj) |-> <<i, rj[b]>>]])

\* the row pairs of an inner join: left rows without a partner are lost
InnerPairs(L, R) ==
    Flatten([i \in 1..Len(L.rows) |->
        LET rj == IndexesOf(R, KeyOf(L.rows[i]))
        IN  [b \in 1..Len(rj) |-> <<i, rj[b]>>]])

\* the row pairs of an outer join: union of the keys, sorted lexicographically
OuterPairs(L, R) ==
    LET ks == SortKeys(Keys(L) \cup Keys(R))
    IN  Flatten([n \in 1..Len(ks) |->
            LET li == IndexesOf(L, ks[n])
                rj == IndexesOf(R, ks[n])
            IN  IF Len(rj) = 0 THEN [a \in 1..Len(li) |-> <<li[a], 0>>]
                ELSE IF Len(li) = 0 THEN [b \in 1..Len(rj) |-> <<0, rj[b]>>]
                ELSE Flatten([a \in 1..Len(li) |->
                        [b \in 1..Len(rj) |-> <<li[a], rj[b]>>]])])

\* the merged frame for given row pairs; overlapping value columns get the suffixes
MergeFrame(L, R, pairs, lsuffix, rsuffix) ==
    LET lc == L.cols \ {"product"}
        rc == R.cols \ {"product"}
        ln(c) == IF c \in rc THEN c \o lsuffix ELSE c
        rn(c) == IF c \in lc THEN c \o rsuffix ELSE c
        outcols == {"product"} \cup {ln(c) : c \in lc} \cup {rn(c) : c \in rc}
        Cell(i, j, c) ==
            IF c = "product"
            THEN (IF i > 0 THEN L.rows[i]["product"] ELSE R.rows[j]["product"])
            ELSE IF \E x \in lc : ln(x) = c
            THEN (IF i > 0 THEN L.rows[i][CHOOSE x \in lc : ln(x) = c] ELSE NaN)
            ELSE (IF j > 0 THEN R.rows[j][CHOOSE x \in rc : rn(x) = c] ELSE NaN)
    IN  Frame(outcols,
              [n \in 1..Len(pairs) |->
                  [c \in outcols |-> Cell(pairs[n][1], pairs[n][2], c)]])

\* the merge of the dispensed tables as an inner join
merge_inner(L, R) == MergeFrame(L, R, InnerPairs(L, R), "_x", "_y")

merge_outer(L, R) == MergeFrame(L, R, OuterPairs(L, R), "_x", "_y")

merge_left(L, R, lsuffix, rsuffix) == MergeFrame(L, R, LeftPairs(L, R), lsuffix, rsuffix)

\* the common dtype of two combined columns: float as soon as one is float
CommonDtype(a, b, cells) ==
    LET isFloat == \E i \in DOMAIN a : a[i].k \in {"float", "nan"} \/ b[i].k \in {"float", "nan"}
    IN  [i \in DOMAIN cells |->
            IF isFloat /\ cells[i].k = "int" THEN Float(cells[i].n, 1) ELSE cells[i]]

\* combine_first with the operands taken the other way round
combine_first_Swapped(a, b) ==
    CommonDtype(a, b, [i \in DOMAIN a |-> IF notnull(b[i]) THEN b[i] ELSE a[i]])

\* a.combine_first(b), row by row
combine_first(a, b) ==
    CommonDtype(a, b, [i \in DOMAIN a |-> IF notnull(a[i]) THEN a[i] ELSE b[i]])

----------------------------------------------------------------------------
(* The run of main() on four uploaded files *)

MaxDispensedRows == 2

MaxOnHandRows == 2

\* the slider of line 24
TargetMonths == 1..12

REQUIRED_COLUMNS ==
    <<"total_units_past_6_months", "total_units_past_2_months", "on_hand">>

\* headers as the files spell them, by canonical name
TitleHeaders ==
    [generic_name |-> "Generic Name", description |-> "Description",
     package_qty |-> "Package Qty", form |-> "Form", containers |-> "Containers",
     brand |-> "Brand", units |-> "Units", on_hand |-> "On Hand",
     generic |-> "Generic", qty_x_form |-> "Qty x Form"]

\* the rows the uploaded files are made of
DRow(desc, q) ==
    [generic |-> Str("Ibuprofen"), qty_x_form |-> Str(desc), containers |-> q]

DispensedRows == <<DRow("1 x 200mg", Int_(80)), DRow("1 x 200mg", Int_(90))>>

PRow(q, oh) ==
    [brand |-> Str("Ibuprofen"), description |-> Str("1 x 200mg"),
     package_qty |-> Int_(q), units |-> Int_(q), on_hand |-> oh]

ProductsRows == <<PRow(80, Int_(50)), PRow(80, NaN)>>

MRow(pq, f, oh) ==
    [generic_name |-> Str("Ibuprofen"), description |-> Str("200mg"),
     package_qty |-> Int_(pq), form |-> Str(f), containers |-> oh]

MedsRows ==
    <<MRow(80, "80", Int_(30)), MRow(90, "90", NaN), MRow(100, " Tablet", Int_(50))>>

\* the layouts of the four files: how the headers are spelled, and the one
\* column of its vocabulary a file lacks
Layouts ==
    {[style |-> "snake", miss |-> <<"none", "">>],
     [style |-> "title", miss |-> <<"none", "">>],
     [style |-> "title", miss |-> <<"meds_on_hand", "form">>],
     [style |-> "snake", miss |-> <<"dispensed_2_months", "containers">>],
     [style |-> "title", miss |-> <<"dispensed_6_months", "containers">>],
     [style |-> "snake", miss |-> <<"products_on_hand", "on_hand">>],
     [style |-> "title", miss |-> <<"meds_on_hand", "containers">>]}

\* the files of 1..max rows over a universe of rows (in the order of the
\* universe), as pd.read_csv returns them
Files(universe, max, table, layout) ==
    LET idx == UNION {{q \in [1..n -> 1..Len(universe)] :
                            \A i \in 1..(n - 1) : q[i] <= q[i + 1]} : n \in 1..max}
        cs == DOMAIN universe[1] \ (IF layout.miss[1] = table THEN {layout.miss[2]} ELSE {})
        hdr == [c \in cs |-> IF layout.style = "title" THEN TitleHeaders[c] ELSE c]
    IN  {RenameAll(Frame(cs, [i \in DOMAIN q |-> universe[q[i]]]), hdr) : q \in idx}

NoFrame == [cols |-> {}, rows |-> <<>>]

NoOutput == [error |-> <<>>, errorShown |-> FALSE, unmatched |-> <<>>, raised |-> ""]

Init ==
    /\ pc = "uploaded"
    /\ \E layout \in Layouts :
        /\ meds_on_hand \in Files(MedsRows, MaxOnHandRows, "meds_on_hand", layout)
        /\ products_on_hand \in Files(ProductsRows, MaxOnHandRows, "products_on_hand", layout)
        /\ dispensed_2_months \in
                Files(DispensedRows, MaxDispensedRows, "dispensed_2_months", layout)
        /\ dispensed_6_months \in
                Files(DispensedRows, MaxDispensedRows, "dispensed_6_months", layout)
    /\ combined_data = NoFrame
    /\ target_months = 0
    /\ st_out = NoOutput
    /\ row = <<>>
    /\ columns = <<>>
    /\ result = NaN

\* lines 35-38
Standardize ==
    /\ pc = "uploaded"
    /\ meds_on_hand' = standardize_columns(meds_on_hand)
    /\ products_on_hand' = standardize_columns(products_on_hand)
    /\ dispensed_2_months' = standardize_columns(dispensed_2_months)
    /\ dispensed_6_months' = standardize_columns(dispensed_6_months)
    /\ pc' = "standardized"
    /\ UNCHANGED <<combined_data, target_months, st_out, row, columns, result>>

\* lines 41-51: the product key of every row of every table
PreprocessProducts ==
    /\ pc = "standardized"
    /\ LET m == ProductColumn(meds_on_hand, MEDS_COLUMNS)
           p == ProductColumn(products_on_hand, PRODUCTS_COLUMNS)
           d2 == ProductColumn(dispensed_2_months, DISPENSED_COLUMNS)
           d6 == ProductColumn(dispensed_6_months, DISPENSED_COLUMNS)
       IN  IF \E ks \in {m, p, d2, d6} : \E i \in DOMAIN ks : ks[i].k = "raise"
           THEN /\ pc' = "raised"
                /\ st_out' = [st_out EXCEPT !.raised = "AttributeError"]
                /\ UNCHANGED <<meds_on_hand, products_on_hand,
                               dispensed_2_months, dispensed_6_months>>
           ELSE /\ pc' = "keyed"
                /\ meds_on_hand' = SetColumn(meds_on_hand, "product", m)
                /\ products_on_hand' = SetColumn(products_on_hand, "product", p)
                /\ dispensed_2_months' = SetColumn(dispensed_2_months, "product", d2)
                /\ dispensed_6_months' = SetColumn(dispensed_6_months, "product", d6)
                /\ UNCHANGED st_out
    /\ UNCHANGED <<combined_data, target_months, row, columns, result>>

\* lines 54-56
Rename ==
    /\ pc = "keyed"
    /\ dispensed_2_months' =
            rename(dispensed_2_months, "containers", "total_units_past_2_months")
    /\ dispensed_6_months' =
            rename(dispensed_6_months, "containers", "total_units_past_6_months")
    /\ meds_on_hand' = rename(meds_on_hand, "containers", "on_hand")
    /\ pc' = "renamed"
    /\ UNCHANGED <<products_on_hand, combined_data, target_months, st_out,
                   row, columns, result>>

\* lines 59-64; selecting an absent column raises KeyError
MergeDispensed ==
    /\ pc = "renamed"
    /\ IF /\ "total_units_past_2_months" \in dispensed_2_months.cols
          /\ "total_units_past_6_months" \in dispensed_6_months.cols
       THEN /\ combined_data' =
                  merge_outer(
                      Select(dispensed_2_months, {"product", "total_units_past_2_months"}),
                      Select(dispensed_6_months, {"product", "total_units_past_6_months"}))
            /\ pc' = "merged_dispensed"
            /\ UNCHANGED st_out
       ELSE /\ pc' = "raised"
            /\ st_out' = [st_out EXCEPT !.raised = "KeyError"]
            /\ UNCHANGED combined_data
    /\ UNCHANGED <<meds_on_hand, products_on_hand, dispensed_2_months,
                   dispensed_6_months, target_months, row, columns, result>>

\* line 65
MergeProducts ==
    /\ pc = "merged_dispensed"
    /\ IF "on_hand" \in products_on_hand.cols
       THEN /\ combined_data' =
                  merge_left(combined_data,
                             Select(products_on_hand, {"product", "on_hand"}), "_x", "_y")
            /\ pc' = "merged_products"
            /\ UNCHANGED st_out
       ELSE /\ pc' = "raised"
            /\ st_out' = [st_out EXCEPT !.raised = "KeyError"]
            /\ UNCHANGED combined_data
    /\ UNCHANGED <<meds_on_hand, products_on_hand, dispensed_2_months,
                   dispensed_6_months, target_months, row, columns, result>>

\* line 66
MergeMeds ==
    /\ pc = "merged_products"
    /\ IF "on_hand" \in meds_on_hand.cols
       THEN /\ combined_data' =
                  merge_left(combined_data,
                             Select(meds_on_hand, {"product", "on_hand"}), "", "_meds")
            /\ pc' = "merged"
            /\ UNCHANGED st_out
       ELSE /\ pc' = "raised"
            /\ st_out' = [st_out EXCEPT !.raised = "KeyError"]
            /\ UNCHANGED combined_data
    /\ UNCHANGED <<meds_on_hand, products_on_hand, dispensed_2_months,
                   dispensed_6_months, target_months, row, columns, result>>

\* lines 69-70
ResolveOnHand ==
    /\ pc = "merged"
    /\ combined_data' =
          drop(SetColumn(combined_data, "on_hand",
                         combine_first(Column(combined_data, "on_hand"),
                                       Column(combined_data, "on_hand_meds"))),
               "on_hand_meds")
    /\ pc' = "resolved"
    /\ UNCHANGED <<meds_on_hand, products_on_hand, dispensed_2_months,
                   dispensed_6_months, target_months, st_out, row, columns, result>>

\* line 73: the rows of meds-on-hand whose key is not in the reconciled table
Unmatched(meds, combined) ==
    LET Test(r) == KeyOf(r) \notin Keys(combined)
    IN  Select([cols |-> meds.cols, rows |-> SelectSeq(meds.rows, Test)],
               {"product", "on_hand"}).rows

\* lines 73-75
ReportUnmatched ==
    /\ pc = "resolved"
    /\ st_out' = [st_out EXCEPT !.unmatched = Unmatched(meds_on_hand, combined_data)]
    /\ pc' = "reported"
    /\ UNCHANGED <<meds_on_hand, products_on_hand, dispensed_2_months,
                   dispensed_6_months, combined_data, target_months,
                   row, columns, result>>

OverrideValues == {Int_(10)}

\* the edits of the operator: nothing, or one value typed into one row
Edits(n) == {[i \in 1..n |-> NaN]}
                \cup {[i \in 1..n |-> IF i = e THEN v ELSE NaN] :
                        e \in 1..n, v \in OverrideValues}

\* lines 78-81: the override column, None but where the operator typed a value
EditOverrides ==
    /\ pc = "reported"
    /\ \E edited \in Edits(Len(combined_data.rows)) :
          combined_data' = SetColumn(combined_data, "target_qty_on_hand_override", edited)
    /\ pc' = "edited"
    /\ UNCHANGED <<meds_on_hand, products_on_hand, dispensed_2_months,
                   dispensed_6_months, target_months, st_out, row, columns, result>>

\* line 85
missing_columns(df) ==
    LET Test(c) == c \notin df.cols
    IN  SelectSeq(REQUIRED_COLUMNS, Test)

\* lines 84-99, with the slider value read on line 24: the required column
\* check, then the quantity of every row
Calculate ==
    /\ pc = "edited"
    /\ IF missing_columns(combined_data) # <<>>
       THEN /\ st_out' = [st_out EXCEPT !.error = missing_columns(combined_data),
                                        !.errorShown = TRUE]
            /\ pc' = "error"
            /\ UNCHANGED <<combined_data, target_months>>
       ELSE \E T \in TargetMonths :
            /\ target_months' = T
            /\ combined_data' =
                  SetColumn(combined_data, "qty_to_order",
                            [i \in 1..Len(combined_data.rows) |->
                                calculate_quantity_to_order(combined_data.rows[i], T)])
            /\ pc' = "done"
            /\ UNCHANGED st_out
    /\ UNCHANGED <<meds_on_hand, products_on_hand, dispensed_2_months,
                   dispensed_6_months, row, columns, result>>

Next ==
    \/ Standardize
    \/ PreprocessProducts
    \/ Rename
    \/ MergeDispensed
    \/ MergeProducts
    \/ MergeMeds
    \/ ResolveOnHand
    \/ ReportUnmatched
    \/ EditOverrides
    \/ Calculate

Spec == Init /\ [][Next]_vars

----------------------------------------------------------------------------
(* calculate_quantity_to_order applied to one row *)

MaxTens == 9

Quantities == {Int_(10 * i) : i \in 0..MaxTens}

CALC_COLUMNS ==
    {"total_units_past_2_months", "total_units_past_6_months", "on_hand",
     "target_qty_on_hand_override"}

InitCalc ==
    /\ pc = "call_calc"
    /\ row \in [CALC_COLUMNS -> Quantities \cup {NaN}]
    /\ target_months = 0
    /\ result = NaN
    /\ columns = <<>>
    /\ meds_on_hand = NoFrame
    /\ products_on_hand = NoFrame
    /\ dispensed_2_months = NoFrame
    /\ dispensed_6_months = NoFrame
    /\ combined_data = NoFrame
    /\ st_out = NoOutput

ApplyCalculate ==
    /\ pc = "call_calc"
    /\ \E T \in TargetMonths :
        /\ target_months' = T
        /\ result' = calculate_quantity_to_order(row, T)
    /\ pc' = "calc_returned"
    /\ UNCHANGED <<meds_on_hand, products_on_hand, dispensed_2_months,
                   dispensed_6_months, combined_data, st_out, row, columns>>

NextCalc == ApplyCalculate

SpecCalc == InitCalc /\ [][NextCalc]_vars

----------------------------------------------------------------------------
(* preprocess_product applied to one row *)

MaxPrefixRepeats == 2

RECURSIVE Repeat(_, _)
Repeat(s, k) == IF k = 0 THEN "" ELSE s \o Repeat(s, k - 1)

BASE_DESCRIPTION == "30 tablets"

INNER_DESCRIPTION == "30 " \o IGNORE_PREFIX \o "tablets"

NameCells == {NaN, Str("Ibuprofen")}

DescriptionCells ==
    {NaN, Int_(30), Str(INNER_DESCRIPTION)}
        \cup {Str(Repeat(IGNORE_PREFIX, k) \o BASE_DESCRIPTION) : k \in 0..MaxPrefixRepeats}

PackageQtyCells == {NaN, Int_(100), Float(100, 1), Str("100")}

FormCells == {NaN, Str(" Tablet "), Str("CAPSULE"), Int_(80)}

ContainersCells == {NaN, Int_(80), Float(80, 1), Str(" 80 ML")}

\* the values a column of the source files can hold
CellsOf(c) ==
    CASE c \in {"generic_name", "brand", "generic"} -> NameCells
      [] c \in {"description", "qty_x_form"} -> DescriptionCells
      [] c = "package_qty" -> PackageQtyCells
      [] c \in {"form", "units"} -> FormCells
      [] c = "containers" -> ContainersCells

RoleMappings == {MEDS_COLUMNS, PRODUCTS_COLUMNS, DISPENSED_COLUMNS}

\* the rows over the columns P
RECURSIVE RowsOver(_)
RowsOver(P) ==
    IF P = {} THEN {<<>>}
    ELSE LET c == CHOOSE x \in P : TRUE
         IN  {(c :> v) @@ r : v \in CellsOf(c), r \in RowsOver(P \ {c})}

InitKey ==
    /\ pc = "call_key"
    /\ columns \in RoleMappings
    /\ \E P \in SUBSET Range(columns) : row \in RowsOver(P)
    /\ target_months = 0
    /\ result = NaN
    /\ meds_on_hand = NoFrame
    /\ products_on_hand = NoFrame
    /\ dispensed_2_months = NoFrame
    /\ dispensed_6_months = NoFrame
    /\ combined_data = NoFrame
    /\ st_out = NoOutput

ApplyPreprocess ==
    /\ pc = "call_key"
    /\ result' = preprocess_product(row, columns, IGNORE_PREFIX)
    /\ pc' = "key_returned"
    /\ UNCHANGED <<meds_on_hand, products_on_hand, dispensed_2_months,
                   dispensed_6_months, combined_data, target_months, st_out,
                   row, columns>>

NextKey == ApplyPreprocess

SpecKey == InitKey /\ [][NextKey]_vars

----------------------------------------------------------------------------
(* Properties of calculate_quantity_to_order (SpecCalc) *)

Max(a, b) == IF a >= b THEN a ELSE b

T2 == row["total_units_past_2_months"]

T6 == row["total_units_past_6_months"]

OnHand == row["on_hand"]

Override == row["target_qty_on_hand_override"]

\* C1: for every row, every target_months in 1..12 and every override (null
\* or number) the quantity returned is a number >= 0, also when the 2-month
\* total, the 6-month total or on_hand of the row is null.
C1_NeverNegative ==
    pc = "calc_returned" => (IsNum(result) /\ result.d > 0 /\ result.n >= 0)

C1_Witness ==
    /\ pc = "calc_returned"
    /\ ~notnull(T2) /\ ~notnull(OnHand) /\ notnull(T6) /\ notnull(Override)
    /\ result = Int_(0)

\* six times the target quantity of the formula, as an integer
SixTarget ==
    IF notnull(Override) THEN 6 * Override.n
    ELSE Max(6 * T2.n, T6.n * target_months)

ExampleRow(t2, t6, oh, ov) ==
    [c \in CALC_COLUMNS |->
        CASE c = "total_units_past_2_months" -> t2
          [] c = "total_units_past_6_months" -> t6
          [] c = "on_hand" -> oh
          [] c = "target_qty_on_hand_override" -> ov]

\* C2: for a row whose 2-month total, 6-month total and on_hand are numbers,
\* the quantity is max(0, target_qty - on_hand), target_qty being the override
\* when there is one and max(2-month total, 6-month total / (6 / T))
\* otherwise; (80, 90, on_hand 50, T = 2) gives 30, with a 2-month total of 30
\* it gives 0, and with an override of 10 it gives 0.
C2_Formula ==
    (pc = "calc_returned" /\ notnull(T2) /\ notnull(T6) /\ notnull(OnHand)) =>
        /\ IsNum(result)
        /\ 6 * result.n = result.d * Max(0, SixTarget - 6 * OnHand.n)
        /\ (row = ExampleRow(Int_(80), Int_(90), Int_(50), NaN) /\ target_months = 2)
                => NumEq(result, Int_(30))
        /\ (row = ExampleRow(Int_(30), Int_(90), Int_(50), NaN) /\ target_months = 2)
                => NumEq(result, Int_(0))
        /\ (row = ExampleRow(Int_(80), Int_(90), Int_(50), Int_(10)) /\ target_months = 2)
                => NumEq(result, Int_(0))

C2_Witness ==
    /\ pc = "calc_returned"
    /\ row = ExampleRow(Int_(80), Int_(90), Int_(50), NaN)
    /\ target_months = 2
    /\ NumEq(result, Int_(30))

----------------------------------------------------------------------------
(* Properties of preprocess_product (SpecKey) *)

Field(role) == Get(row, columns[role], Str(""))

\* the text a field is to contribute: nothing when it is absent or null
TextOrEmpty(c) == IF notnull(c) THEN PyStr(c) ELSE ""

\* C8: preprocess_product never fails and returns a string, and each absent
\* or null field (name, description, package_qty, form) contributes the
\* empty string to the key.
C8_MissingFieldsRenderEmpty ==
    (pc = "key_returned" /\ Field("description").k \in {"str", "nan"}) =>
        /\ result.k = "str"
        /\ result.s = TextOrEmpty(Field("name")) \o " "
                        \o StripPrefix(TextOrEmpty(Field("description")), IGNORE_PREFIX)
                        \o " " \o TextOrEmpty(Field("package_qty")) \o " ("
                        \o lower(strip(TextOrEmpty(Field("form")))) \o ")"

\* the description the key is to carry, for the descriptions of the model
ExpectedDescription(d) ==
    IF \E k \in 1..MaxPrefixRepeats : d = Repeat(IGNORE_PREFIX, k) \o BASE_DESCRIPTION
    THEN LET k == CHOOSE k \in 1..MaxPrefixRepeats :
                        d = Repeat(IGNORE_PREFIX, k) \o BASE_DESCRIPTION
         IN  Repeat(IGNORE_PREFIX, k - 1) \o BASE_DESCRIPTION
    ELSE d

\* the form the key is to carry, for the forms of the model
ExpectedForm(f) ==
    CASE f = " Tablet " -> "tablet"
      [] f = "CAPSULE" -> "capsule"
      [] f = " 80 ML" -> "80 ml"

AllFieldsStr ==
    \A role \in {"name", "description", "package_qty", "form"} :
        columns[role] \in DOMAIN row /\ row[columns[role]].k = "str"

\* C9: for a row with string fields the key is name, space, d, space,
\* package_qty, space, the trimmed lowercased form in parentheses, d being the
\* description without one leading ignore_prefix when it starts with it
\* ("1 x 30 tablets" gives "30 tablets", "1 x 1 x 30 tablets" gives
\* "1 x 30 tablets") and the description unchanged otherwise; a prefix that
\* is not at the start is never removed.
C9_KeyComposition ==
    (pc = "key_returned" /\ AllFieldsStr) =>
        /\ result = Str(Field("name").s \o " "
                        \o ExpectedDescription(Field("description").s) \o " "
                        \o Field("package_qty").s \o " ("
                        \o ExpectedForm(Field("form").s) \o ")")
        /\ Field("description").s = "1 x 30 tablets"
                => ExpectedDescription(Field("description").s) = "30 tablets"
        /\ Field("description").s = "30 1 x tablets"
                => ExpectedDescription(Field("description").s) = "30 1 x tablets"

C9_Witness ==
    /\ pc = "key_returned"
    /\ AllFieldsStr
    /\ columns = MEDS_COLUMNS
    /\ Field("description").s = "1 x 1 x 30 tablets"
    /\ result.s = "Ibuprofen 1 x 30 tablets 100 (tablet)"

----------------------------------------------------------------------------
(* Properties of the run of main() (Spec) *)

\* both are null, or both are the same number
SameValue(a, b) == (~notnull(a) /\ ~notnull(b)) \/ NumEq(a, b)

UniqueKeys(df) ==
    \A i, j \in DOMAIN df.rows : KeyOf(df.rows[i]) = KeyOf(df.rows[j]) => i = j

RowsOf(df, k) == {i \in DOMAIN df.rows : KeyOf(df.rows[i]) = k}

Joined == pc \in {"merged", "resolved", "reported", "edited", "done"}

Resolved == pc \in {"resolved", "reported", "edited", "done"}

DispensedKeys == Keys(dispensed_2_months) \cup Keys(dispensed_6_months)

OneRowPerDispensedKey ==
    /\ \A k \in DispensedKeys : Cardinality(RowsOf(combined_data, k)) = 1
    /\ Keys(combined_data) \subseteq DispensedKeys

\* C3 as stated: when each dispensed table has unique ProductKeys, the
\* reconciled table after the outer join and both on_hand left joins holds
\* every ProductKey of either dispensed table exactly once and no other key,
\* whatever rows the two on-hand tables hold.
C3_AnyOnHandRows ==
    (Joined /\ UniqueKeys(dispensed_2_months) /\ UniqueKeys(dispensed_6_months))
        => OneRowPerDispensedKey

\* C3 amended: the same, provided neither on-hand table holds two rows with
\* the same ProductKey.
C3_UniqueOnHandKeys ==
    (/\ Joined
     /\ UniqueKeys(dispensed_2_months) /\ UniqueKeys(dispensed_6_months)
     /\ UniqueKeys(products_on_hand) /\ UniqueKeys(meds_on_hand))
        => OneRowPerDispensedKey

C3_Witness ==
    /\ pc = "merged"
    /\ UniqueKeys(dispensed_2_months) /\ UniqueKeys(dispensed_6_months)
    /\ UniqueKeys(products_on_hand) /\ UniqueKeys(meds_on_hand)
    /\ Keys(dispensed_2_months) \ Keys(dispensed_6_months) # {}
    /\ Keys(dispensed_6_months) \ Keys(dispensed_2_months) # {}
    /\ Keys(products_on_hand) \cap DispensedKeys # {}
    /\ Keys(meds_on_hand) \ DispensedKeys # {}
    /\ Len(combined_data.rows) = Cardinality(DispensedKeys)

\* the final on_hand of the reconciled row r is as the resolution rule says
OnHandResolved(r) ==
    LET k == KeyOf(r)
        P == RowsOf(products_on_hand, k)
        M == RowsOf(meds_on_hand, k)
    IN  /\ \A j \in P : notnull(products_on_hand.rows[j]["on_hand"])
                => SameValue(r["on_hand"], products_on_hand.rows[j]["on_hand"])
        /\ (P = {} \/ \E j \in P : ~notnull(products_on_hand.rows[j]["on_hand"]))
                => IF M = {} THEN ~notnull(r["on_hand"])
                   ELSE \A m \in M : SameValue(r["on_hand"], meds_on_hand.rows[m]["on_hand"])

\* C4 as stated: for every reconciled row with key k, a non-null on_hand of
\* products-on-hand for k is the row's final on_hand whatever meds-on-hand
\* holds; with no row or a null on_hand for k in products-on-hand the final
\* on_hand is that of meds-on-hand for k (null when it has none); the column
\* on_hand_meds is not in the final table.
C4_OnHandResolution ==
    Resolved =>
        /\ "on_hand_meds" \notin combined_data.cols
        /\ \A i \in DOMAIN combined_data.rows : OnHandResolved(combined_data.rows[i])

\* C4 amended: the same for every reconciled row whose key occurs in at most
\* one row of products-on-hand and in at most one row of meds-on-hand.
C4_OnHandResolutionUniqueKey ==
    Resolved =>
        /\ "on_hand_meds" \notin combined_data.cols
        /\ \A i \in DOMAIN combined_data.rows :
            (/\ Cardinality(RowsOf(products_on_hand, KeyOf(combined_data.rows[i]))) <= 1
             /\ Cardinality(RowsOf(meds_on_hand, KeyOf(combined_data.rows[i]))) <= 1)
                => OnHandResolved(combined_data.rows[i])

C4_Witness ==
    /\ pc = "resolved"
    /\ \E i \in DOMAIN combined_data.rows :
        LET k == KeyOf(combined_data.rows[i])
        IN  /\ Cardinality(RowsOf(products_on_hand, k)) = 1
            /\ Cardinality(RowsOf(meds_on_hand, k)) = 1
            /\ \E j \in RowsOf(products_on_hand, k), m \in RowsOf(meds_on_hand, k) :
                /\ NumEq(products_on_hand.rows[j]["on_hand"], Int_(50))
                /\ NumEq(meds_on_hand.rows[m]["on_hand"], Int_(30))
            /\ NumEq(combined_data.rows[i]["on_hand"], Int_(50))

HasColumn(df, names) == \E c \in df.cols : StdHeader(c) \in names

\* the required columns the uploaded files cannot produce
Unproducible ==
    (IF HasColumn(dispensed_6_months, {"containers", "total_units_past_6_months"})
     THEN {} ELSE {"total_units_past_6_months"})
    \cup (IF HasColumn(dispensed_2_months, {"containers", "total_units_past_2_months"})
          THEN {} ELSE {"total_units_past_2_months"})
    \cup (IF /\ HasColumn(products_on_hand, {"on_hand"})
             /\ HasColumn(meds_on_hand, {"containers", "on_hand"})
          THEN {} ELSE {"on_hand"})

\* C5: when an input table lacks a column needed to produce a required
\* column, the run ends in the missing-column error that reports exactly the
\* missing required columns, without any quantity calculated, and never
\* aborts in another way.
C5_MissingColumnReported ==
    (Unproducible # {} /\ pc \in {"done", "error", "raised"}) =>
        /\ pc = "error"
        /\ st_out.errorShown
        /\ Range(st_out.error) = Unproducible
        /\ "qty_to_order" \notin combined_data.cols

\* six times the quantity of the formula for the reconciled row r with a
\* null total counted as zero
SixExpected(r, T) ==
    LET t2 == IF notnull(r["total_units_past_2_months"])
              THEN r["total_units_past_2_months"].n ELSE 0
        t6 == IF notnull(r["total_units_past_6_months"])
              THEN r["total_units_past_6_months"].n ELSE 0
    IN  Max(0, Max(6 * t2, t6 * T) - 6 * r["on_hand"].n)

OneWindowOnly(r) ==
    notnull(r["total_units_past_2_months"]) # notnull(r["total_units_past_6_months"])

\* C6: for a reconciled row with history in one window only (the outer join
\* left the other total null) and no override, the calculation does not
\* raise and the quantity is max(0, max(t2, t6 / (6 / T)) - on_hand) with the
\* null total taken as 0, for a null 2-month total and for a null 6-month
\* total alike.
C6_NullHistoryAsZero ==
    pc = "done" =>
        \A i \in DOMAIN combined_data.rows :
            LET r == combined_data.rows[i]
            IN  (/\ OneWindowOnly(r)
                 /\ ~notnull(r["target_qty_on_hand_override"])
                 /\ notnull(r["on_hand"]))
                    => /\ IsNum(r["qty_to_order"])
                       /\ 6 * r["qty_to_order"].n
                            = r["qty_to_order"].d * SixExpected(r, target_months)

\* C7: a 2-month row and a 6-month row with equal name and equal description
\* have equal ProductKeys whatever their dispensed quantities are, and the
\* outer join yields one row carrying the 2-month total of the one and the
\* 6-month total of the other.
C7_SameProductOneRow ==
    pc = "merged_dispensed" =>
        \A i \in DOMAIN dispensed_2_months.rows, j \in DOMAIN dispensed_6_months.rows :
            LET a == dispensed_2_months.rows[i]
                b == dispensed_6_months.rows[j]
            IN  (a["generic"] = b["generic"] /\ a["qty_x_form"] = b["qty_x_form"])
                    => /\ KeyOf(a) = KeyOf(b)
                       /\ \E n \in DOMAIN combined_data.rows :
                            /\ KeyOf(combined_data.rows[n]) = KeyOf(a)
                            /\ SameValue(combined_data.rows[n]["total_units_past_2_months"],
                                         a["total_units_past_2_months"])
                            /\ SameValue(combined_data.rows[n]["total_units_past_6_months"],
                                         b["total_units_past_6_months"])

\* no row of either on-hand table with the key k holds a non-null on_hand
NoStockRecord(k) ==
    /\ \A j \in RowsOf(products_on_hand, k) : ~notnull(products_on_hand.rows[j]["on_hand"])
    /\ \A m \in RowsOf(meds_on_hand, k) : ~notnull(meds_on_hand.rows[m]["on_hand"])

\* C10: a reconciled row whose ProductKey matches no row with a non-null
\* on_hand in products-on-hand or meds-on-hand has a null final on_hand and a
\* quantity to order of 0, for every target_months, whatever its dispensed
\* totals and its override are.
C10_NoStockRecordNeverOrdered ==
    pc = "done" =>
        \A i \in DOMAIN combined_data.rows :
            NoStockRecord(KeyOf(combined_data.rows[i]))
                => /\ ~notnull(combined_data.rows[i]["on_hand"])
                   /\ NumEq(combined_data.rows[i]["qty_to_order"], Int_(0))

C10_Witness ==
    /\ pc = "done"
    /\ target_months = 12
    /\ \E i \in DOMAIN combined_data.rows :
        /\ NoStockRecord(KeyOf(combined_data.rows[i]))
        /\ notnull(combined_data.rows[i]["total_units_past_2_months"])
        /\ notnull(combined_data.rows[i]["total_units_past_6_months"])
        /\ ~notnull(combined_data.rows[i]["target_qty_on_hand_override"])
        /\ NumEq(combined_data.rows[i]["qty_to_order"], Int_(0))

====
